---- MODULE Spec2Model ----
(***************************************************************************)
(* A model of the Taxi OO-MDP of                                           *)
(* src/simple_rl/tasks/taxi/AugmentedTaxi2OOMDPClass.py: the transition    *)
(* function _taxi_transition_func, the action implementations move_agent,  *)
(* agent_pickup, agent_dropoff, agent_refuel, and _error_check.            *)
(*                                                                         *)
(* A state object is a record                                              *)
(*   [agent, passengers, hotswap_station, is_terminal, is_goal].           *)
(* Python passes state objects by reference, so an operation that may      *)
(* return its argument returns a record [val, alias]: val is the content   *)
(* of the returned object and alias says whether the returned object IS    *)
(* the argument object (no copy was made).                                 *)
(***************************************************************************)
EXTENDS Integers, Sequences, FiniteSets, TLC

\* ------------------------------------------------------------------ bounds
Width == 2
Height == 2
MaxFuel == 2
FuelDebt == 5

\* --------------------------------------------------------------- constants
BASE_ACTIONS == {"up", "down", "left", "right", "pickup", "dropoff"}
AUGMENTED_ACTIONS == {"up", "down", "left", "right", "pickup", "dropoff", "refuel"}

\* The actions a caller may supply: the seven known ones and an unknown one.
SuppliedActions == AUGMENTED_ACTIONS \cup {"jump"}

\* Outcomes of random.random(), in hundredths: a low draw and a high draw.
Draws == {0, 99}

VARIABLES
    mdp,         \* the MDP's static configuration (self.width, self.walls, ...)
    state,       \* content of the object the caller passed to the last call, after the call
    state0,      \* content of that same object when the call began
    next_state,  \* content of the object the last successful call returned
    alias,       \* TRUE iff the returned object is the object that was passed in
    action,      \* the action of the last call
    stuck,       \* the stuck outcome of the last call
    raised,      \* TRUE iff the last call raised ValueError
    call,        \* "init", "step" (input = last returned object), "again" (same input object)
    after_pickup \* TRUE iff the object passed to the last call had just been returned by
                 \* a pickup call made with has_passenger = 0 and a passenger on the
                 \* agent's cell

vars == <<mdp, state, state0, next_state, alias, action, stuck, raised, call, after_pickup>>

\* ------------------------------------------------- state container helpers
\* AugmentedTaxiState.track_fuel: the agent carries a fuel attribute.
track_fuel(st) == st.agent.has_fuel

\* AugmentedTaxiState.decrement_fuel: the fixed per-step amount, in place.
decrement_fuel(st) == [st EXCEPT !.agent.fuel = @ - 1]

\* State.set_terminal / set_goal.
set_terminal(st, b) == [st EXCEPT !.is_terminal = b]
set_goal(st, b) == [st EXCEPT !.is_goal = b]

\* ------------------------------------------------------------ taxi_helpers
\* taxi_helpers.is_taxi_goal_state: every passenger delivered and released.
is_taxi_goal_state(st) ==
    \A i \in DOMAIN st.passengers :
        /\ st.passengers[i].in_taxi = 0
        /\ st.passengers[i].x = st.passengers[i].dest_x
        /\ st.passengers[i].y = st.passengers[i].dest_y

\* The first (least) index of a set of list indices, 0 if there is none.
FirstIndex(S) == IF S = {} THEN 0 ELSE CHOOSE i \in S : \A j \in S : i <= j

\* taxi_helpers.at_traffic: (present, probability) of the first traffic cell at (x, y).
at_traffic(m, x, y) ==
    LET i == FirstIndex({k \in DOMAIN m.traffic_cells :
                            m.traffic_cells[k].x = x /\ m.traffic_cells[k].y = y})
    IN  IF i = 0 THEN [at |-> FALSE, prob |-> 0]
        ELSE [at |-> TRUE, prob |-> m.traffic_cells[i].prob]

\* taxi_helpers.at_fuel_station: (present, capacity) of the first fuel station at (x, y).
at_fuel_station(m, x, y) ==
    LET i == FirstIndex({k \in DOMAIN m.fuel_stations :
                            m.fuel_stations[k].x = x /\ m.fuel_stations[k].y = y})
    IN  IF i = 0 THEN [at |-> FALSE, max_fuel_capacity |-> 0]
        ELSE [at |-> TRUE, max_fuel_capacity |-> m.fuel_stations[i].max_fuel_capacity]

\* taxi_helpers._is_wall_in_the_way: a wall occupies the destination cell.
is_wall_in_the_way(m, st, dx, dy) ==
    \E i \in DOMAIN m.walls :
        /\ m.walls[i].x = st.agent.x + dx
        /\ m.walls[i].y = st.agent.y + dy

\* taxi_helpers._move_pass_in_taxi: translate the passengers that are in the taxi.
move_pass_in_taxi(st, dx, dy) ==
    [st EXCEPT !.passengers =
        [i \in DOMAIN st.passengers |->
            IF st.passengers[i].in_taxi = 1
            THEN [st.passengers[i] EXCEPT !.x = @ + dx, !.y = @ + dy]
            ELSE st.passengers[i]]]

\* taxi_helpers._moved_off_of_hotswap_station: (moved, index) of the first station
\* of `st` the agent stood on in `st` and no longer stands on in `nst`.
moved_off_of_hotswap_station(st, nst) ==
    LET hs == st.hotswap_station
        i == FirstIndex({k \in DOMAIN hs :
                            /\ hs[k].x = st.agent.x /\ hs[k].y = st.agent.y
                            /\ (hs[k].x # nst.agent.x \/ hs[k].y # nst.agent.y)})
    IN  [moved |-> i # 0, station_idx |-> i]

\* taxi_helpers._moved_off_of_toll: the agent stood on a toll cell in `st` and no
\* longer stands on that cell in `nst`.
moved_off_of_toll(m, st, nst) ==
    \E k \in DOMAIN m.tolls :
        /\ m.tolls[k].x = st.agent.x /\ m.tolls[k].y = st.agent.y
        /\ (m.tolls[k].x # nst.agent.x \/ m.tolls[k].y # nst.agent.y)

\* del lst[idx]
DelAt(s, idx) == [i \in 1..(Len(s) - 1) |-> IF i < idx THEN s[i] ELSE s[i + 1]]

\* ------------------------------------------------- action implementations
\* Variant of move_agent that does not ask whether a wall is in the way.
move_agent_through_walls(m, st, dx, dy) ==
    [val |-> move_pass_in_taxi(
                [st EXCEPT !.agent.x = @ + dx, !.agent.y = @ + dy], dx, dy),
     alias |-> FALSE]

\* Variant of move_agent that moves the agent and leaves every passenger behind.
move_agent_leaves_passengers(m, st, dx, dy) ==
    IF is_wall_in_the_way(m, st, dx, dy)
    THEN [val |-> st, alias |-> TRUE]
    ELSE [val |-> [st EXCEPT !.agent.x = @ + dx, !.agent.y = @ + dy],
          alias |-> FALSE]

\* AugmentedTaxi2OOMDP.move_agent
move_agent(m, st, dx, dy) ==
    IF is_wall_in_the_way(m, st, dx, dy)
    THEN [val |-> st, alias |-> TRUE]
    ELSE [val |-> move_pass_in_taxi(
                     [st EXCEPT !.agent.x = @ + dx, !.agent.y = @ + dy], dx, dy),
          alias |-> FALSE]

\* AugmentedTaxi2OOMDP.agent_pickup
agent_pickup(st) ==
    LET Here(p) == p.x = st.agent.x /\ p.y = st.agent.y
        any == \E i \in DOMAIN st.passengers : Here(st.passengers[i])
    IN  IF st.agent.has_passenger = 0 /\ any
        THEN [val |-> [st EXCEPT
                  !.agent.has_passenger = 1,
                  !.passengers = [i \in DOMAIN st.passengers |->
                      IF Here(st.passengers[i])
                      THEN [st.passengers[i] EXCEPT !.in_taxi = 1]
                      ELSE st.passengers[i]]],
              alias |-> FALSE]
        ELSE [val |-> st, alias |-> FALSE]

\* Variant of agent_dropoff that releases the passengers but leaves the agent's
\* has_passenger flag set.
agent_dropoff_keeps_flag(st) ==
    LET any == \E i \in DOMAIN st.passengers : st.passengers[i].in_taxi = 1
    IN  IF st.agent.has_passenger = 1 /\ any
        THEN [val |-> [st EXCEPT
                  !.passengers = [i \in DOMAIN st.passengers |->
                      [st.passengers[i] EXCEPT !.in_taxi = 0]]],
              alias |-> FALSE]
        ELSE [val |-> st, alias |-> FALSE]

\* Variant of agent_dropoff that releases a passenger only at its destination.
agent_dropoff_at_destination_only(st) ==
    LET Out(p) == p.in_taxi = 1 /\ p.x = p.dest_x /\ p.y = p.dest_y
        any == \E i \in DOMAIN st.passengers : Out(st.passengers[i])
    IN  IF st.agent.has_passenger = 1 /\ any
        THEN [val |-> [st EXCEPT
                  !.agent.has_passenger = 0,
                  !.passengers = [i \in DOMAIN st.passengers |->
                      IF Out(st.passengers[i])
                      THEN [st.passengers[i] EXCEPT !.in_taxi = 0]
                      ELSE st.passengers[i]]],
              alias |-> FALSE]
        ELSE [val |-> st, alias |-> FALSE]

\* AugmentedTaxi2OOMDP.agent_dropoff
agent_dropoff(st) ==
    LET any == \E i \in DOMAIN st.passengers : st.passengers[i].in_taxi = 1
    IN  IF st.agent.has_passenger = 1 /\ any
        THEN [val |-> [st EXCEPT
                  !.agent.has_passenger = 0,
                  !.passengers = [i \in DOMAIN st.passengers |->
                      [st.passengers[i] EXCEPT !.in_taxi = 0]]],
              alias |-> FALSE]
        ELSE [val |-> st, alias |-> FALSE]

\* AugmentedTaxi2OOMDP.agent_refuel
agent_refuel(m, st) ==
    LET f == at_fuel_station(m, st.agent.x, st.agent.y)
    IN  IF f.at
        THEN [val |-> [st EXCEPT !.agent.has_fuel = TRUE,
                                 !.agent.fuel = f.max_fuel_capacity],
              alias |-> FALSE]
        ELSE [val |-> st, alias |-> FALSE]

\* ------------------------------------------------------ _error_check
\* Variant of error_check that tests every state against the augmented action set.
error_check_one_set(st, a) == a \notin AUGMENTED_ACTIONS

\* TRUE iff _error_check raises ValueError for (state, action).
error_check(st, a) ==
    IF track_fuel(st)
    THEN a \notin AUGMENTED_ACTIONS
    ELSE a \notin BASE_ACTIONS

\* ---------------------------------------------- _taxi_transition_func
\* Variant of state_is_goal in which goal states are not singled out.
state_is_goal_skipped(st) == FALSE

\* state_is_goal = taxi_helpers.is_taxi_goal_state(state)
state_is_goal(st) == is_taxi_goal_state(st)

\* The stuck outcome from the two draws r1 (slip) and r2 (traffic).
stuck_outcome(m, st, r1, r2) ==
    LET t == at_traffic(m, st.agent.x, st.agent.y)
    IN  (m.slip_prob > r1) \/ (t.at /\ t.prob > r2)

\* "decrement fuel if it exists": done on the object that was passed in.
fuel_step(st) == IF track_fuel(st) THEN decrement_fuel(st) ELSE st

\* Variant of dispatch whose bounds tests are off by one (<= for <, >= for >).
dispatch_off_by_one(m, st, a, stk) ==
    IF a = "up" /\ st.agent.y <= m.height /\ ~stk THEN move_agent(m, st, 0, 1)
    ELSE IF a = "down" /\ st.agent.y >= 1 /\ ~stk THEN move_agent(m, st, 0, -1)
    ELSE IF a = "right" /\ st.agent.x <= m.width /\ ~stk THEN move_agent(m, st, 1, 0)
    ELSE IF a = "left" /\ st.agent.x >= 1 /\ ~stk THEN move_agent(m, st, -1, 0)
    ELSE IF a = "dropoff" THEN agent_dropoff(st)
    ELSE IF a = "pickup" THEN agent_pickup(st)
    ELSE IF a = "refuel" THEN agent_refuel(m, st)
    ELSE [val |-> st, alias |-> TRUE]

\* Variant of dispatch in which being stuck blocks every action, not only navigation.
dispatch_stuck_blocks_all(m, st, a, stk) ==
    IF a = "up" /\ st.agent.y < m.height /\ ~stk THEN move_agent(m, st, 0, 1)
    ELSE IF a = "down" /\ st.agent.y > 1 /\ ~stk THEN move_agent(m, st, 0, -1)
    ELSE IF a = "right" /\ st.agent.x < m.width /\ ~stk THEN move_agent(m, st, 1, 0)
    ELSE IF a = "left" /\ st.agent.x > 1 /\ ~stk THEN move_agent(m, st, -1, 0)
    ELSE IF a = "dropoff" /\ ~stk THEN agent_dropoff(st)
    ELSE IF a = "pickup" /\ ~stk THEN agent_pickup(st)
    ELSE IF a = "refuel" /\ ~stk THEN agent_refuel(m, st)
    ELSE [val |-> st, alias |-> TRUE]

\* The if/elif chain that dispatches the action.
dispatch(m, st, a, stk) ==
    IF a = "up" /\ st.agent.y < m.height /\ ~stk THEN move_agent(m, st, 0, 1)
    ELSE IF a = "down" /\ st.agent.y > 1 /\ ~stk THEN move_agent(m, st, 0, -1)
    ELSE IF a = "right" /\ st.agent.x < m.width /\ ~stk THEN move_agent(m, st, 1, 0)
    ELSE IF a = "left" /\ st.agent.x > 1 /\ ~stk THEN move_agent(m, st, -1, 0)
    ELSE IF a = "dropoff" THEN agent_dropoff(st)
    ELSE IF a = "pickup" THEN agent_pickup(st)
    ELSE IF a = "refuel" THEN agent_refuel(m, st)
    ELSE [val |-> st, alias |-> TRUE]

\* Variant of remove_hotswap_station that deletes by cell, not by index: every
\* station on the cell the agent left goes.
remove_hotswap_station_by_cell(st, nst) ==
    LET r == moved_off_of_hotswap_station(st, nst)
        Elsewhere(h) == h.x # st.agent.x \/ h.y # st.agent.y
    IN  IF r.moved
        THEN [nst EXCEPT !.hotswap_station = SelectSeq(@, Elsewhere)]
        ELSE nst

\* Variant of remove_hotswap_station that deletes the last station of the list
\* instead of the one the agent left.
remove_hotswap_station_last(st, nst) ==
    LET r == moved_off_of_hotswap_station(st, nst)
    IN  IF r.moved
        THEN [nst EXCEPT !.hotswap_station = DelAt(@, Len(@))]
        ELSE nst

\* "check if agent is on any one of the hotswap stations. if so, delete it"
remove_hotswap_station(st, nst) ==
    LET r == moved_off_of_hotswap_station(st, nst)
    IN  IF r.moved
        THEN [nst EXCEPT !.hotswap_station = DelAt(@, r.station_idx)]
        ELSE nst

\* Variant of make_terminal that marks a goal state terminal but not goal.
make_terminal_no_goal(nst) ==
    IF is_taxi_goal_state(nst)
    THEN set_terminal(nst, TRUE)
    ELSE nst

\* "Make terminal."
make_terminal(nst) ==
    IF is_taxi_goal_state(nst)
    THEN set_goal(set_terminal(nst, TRUE), TRUE)
    ELSE nst

\* The whole call.  Result: raised; inp, the content of the object passed in when
\* the call ends; out, the content of the returned object; alias, whether the
\* returned object is the object passed in; stuck, the stuck outcome.
taxi_transition_func(m, st, a, r1, r2) ==
    IF error_check(st, a)
    THEN [raised |-> TRUE, inp |-> st, out |-> st, alias |-> TRUE, stuck |-> FALSE]
    ELSE IF state_is_goal(st)
    THEN [raised |-> FALSE, inp |-> st, out |-> st, alias |-> TRUE, stuck |-> FALSE]
    ELSE
        LET stk == stuck_outcome(m, st, r1, r2)
            st1 == fuel_step(st)
            d   == dispatch(m, st1, a, stk)
            n1  == remove_hotswap_station(st1, d.val)
            n2  == make_terminal(n1)
        IN  [raised |-> FALSE,
             inp    |-> IF d.alias THEN n2 ELSE st1,
             out    |-> n2,
             alias  |-> d.alias,
             stuck  |-> stk]

\* ------------------------------------------- compute_reward_features
\* Variant of compute_reward_features that flags the step cost only when the agent
\* has changed cell.
compute_reward_features_step_on_move(m, st, a, nst) ==
    [toll_flag |->
        IF Len(m.tolls) # 0 /\ moved_off_of_toll(m, st, nst) THEN 1 ELSE 0,
     hotswap_flag |->
        IF Len(st.hotswap_station) # 0 /\ moved_off_of_hotswap_station(st, nst).moved
        THEN 1 ELSE 0,
     step_cost_flag |->
        IF st.agent.x # nst.agent.x \/ st.agent.y # nst.agent.y THEN 1 ELSE 0]

\* Variant of compute_reward_features that flags a hotswap when the agent arrives
\* on a station's cell instead of when it leaves one.
compute_reward_features_hotswap_on_entry(m, st, a, nst) ==
    [toll_flag |->
        IF Len(m.tolls) # 0 /\ moved_off_of_toll(m, st, nst) THEN 1 ELSE 0,
     hotswap_flag |->
        IF /\ Len(st.hotswap_station) # 0
           /\ (st.agent.x # nst.agent.x \/ st.agent.y # nst.agent.y)
           /\ \E k \in DOMAIN st.hotswap_station :
                 /\ st.hotswap_station[k].x = nst.agent.x
                 /\ st.hotswap_station[k].y = nst.agent.y
        THEN 1 ELSE 0,
     step_cost_flag |-> 1]

\* Variant of compute_reward_features that charges the toll when the agent arrives
\* on a toll cell (the rule the source has commented out) instead of when it leaves.
compute_reward_features_toll_on_entry(m, st, a, nst) ==
    [toll_flag |->
        IF /\ Len(m.tolls) # 0
           /\ (st.agent.x # nst.agent.x \/ st.agent.y # nst.agent.y)
           /\ \E k \in DOMAIN m.tolls :
                 m.tolls[k].x = nst.agent.x /\ m.tolls[k].y = nst.agent.y
        THEN 1 ELSE 0,
     hotswap_flag |->
        IF Len(st.hotswap_station) # 0 /\ moved_off_of_hotswap_station(st, nst).moved
        THEN 1 ELSE 0,
     step_cost_flag |-> 1]

\* AugmentedTaxi2OOMDP.compute_reward_features: the three flags.
compute_reward_features(m, st, a, nst) ==
    [toll_flag |->
        IF Len(m.tolls) # 0 /\ moved_off_of_toll(m, st, nst) THEN 1 ELSE 0,
     hotswap_flag |->
        IF Len(st.hotswap_station) # 0 /\ moved_off_of_hotswap_station(st, nst).moved
        THEN 1 ELSE 0,
     step_cost_flag |-> 1]

\* ----------------------------------------------------- construction
\* AugmentedTaxi2OOMDP.__init__: the static part of the MDP.
MakeMDP(walls, tolls, traffic, fuel_stations, hotswap_stations, slip_prob) ==
    [width |-> Width, height |-> Height, walls |-> walls, tolls |-> tolls,
     traffic_cells |-> traffic, fuel_stations |-> fuel_stations,
     slip_prob |-> slip_prob,
     \* "does this MDP have the capability of conveying the following reward features?"
     reward_features |-> [toll |-> Len(tolls) > 0,
                          hotswap |-> Len(hotswap_stations) > 0,
                          step_cost |-> TRUE]]

\* AugmentedTaxi2OOMDP._create_state: a new state is neither terminal nor goal.
create_state(agent, passengers, hotswap_stations) ==
    [agent |-> agent, passengers |-> passengers,
     hotswap_station |-> hotswap_stations,
     is_terminal |-> FALSE, is_goal |-> FALSE]

Cell(x, y) == [x |-> x, y |-> y]
Passenger(x, y, dx, dy) == [x |-> x, y |-> y, dest_x |-> dx, dest_y |-> dy, in_taxi |-> 0]

\* The constructor arguments explored.
WallOptions == {<< >>, <<Cell(Width, 1)>>}
TollOptions == {<< >>, <<Cell(1, Height)>>}
TrafficOptions == {<< >>, <<[x |-> 1, y |-> Height, prob |-> 50]>>}
SlipOptions == {0, 50}
\* How many of the four features the surroundings `e` have.
Features(e) ==
    (IF e.walls # << >> THEN 1 ELSE 0) + (IF e.tolls # << >> THEN 1 ELSE 0)
    + (IF e.traffic # << >> THEN 1 ELSE 0) + (IF e.slip_prob # 0 THEN 1 ELSE 0)
\* The surroundings explored: each feature absent, each present alone, tolls with
\* traffic, and all of them together.
EnvOptions ==
    {e \in [walls : WallOptions, tolls : TollOptions,
            traffic : TrafficOptions, slip_prob : SlipOptions] :
        \/ Features(e) <= 1
        \/ Features(e) = 4
        \/ (Features(e) = 2 /\ e.tolls # << >> /\ e.traffic # << >>)}
\* The agent without fuel tracking (and no fuel stations), and with it.
AgentNoFuel == [x |-> 1, y |-> 1, has_passenger |-> 0, has_fuel |-> FALSE, fuel |-> 0]
AgentWithFuel == [x |-> 1, y |-> 1, has_passenger |-> 0, has_fuel |-> TRUE, fuel |-> MaxFuel]
FuelOptions ==
    {[agent |-> AgentNoFuel, fuel_stations |-> << >>],
     [agent |-> AgentWithFuel,
      fuel_stations |-> <<[x |-> 1, y |-> 1, max_fuel_capacity |-> MaxFuel]>>]}
PassengerOptions ==
    {<<Passenger(1, 1, Width, Height)>>,
     <<Passenger(1, 1, Width, Height), Passenger(1, 1, 1, Height)>>,
     <<Passenger(Width, Height, Width, Height)>>}
HotswapOptions == {<< >>, <<Cell(1, 1), Cell(1, Height), Cell(1, 1)>>}
\* The configurations explored: without fuel tracking every surroundings, with or
\* without hotswap stations; with fuel tracking the bare grid and the grid with every
\* feature, without hotswap stations.
ConfigOptions ==
    {c \in [fuel : FuelOptions, env : EnvOptions, hotswap : HotswapOptions] :
        c.fuel.agent.has_fuel => (Features(c.env) \in {0, 4} /\ c.hotswap = << >>)}

Init ==
    /\ \E c \in ConfigOptions, ps \in PassengerOptions :
            /\ mdp = MakeMDP(c.env.walls, c.env.tolls, c.env.traffic,
                             c.fuel.fuel_stations, c.hotswap, c.env.slip_prob)
            /\ state = create_state(c.fuel.agent, ps, c.hotswap)
    /\ state0 = state
    /\ next_state = state
    /\ alias = TRUE
    /\ action = "none"
    /\ stuck = FALSE
    /\ raised = FALSE
    /\ call = "init"
    /\ after_pickup = FALSE

\* A passenger stands on the agent's cell.
PassengerHere(st) ==
    \E i \in DOMAIN st.passengers :
        st.passengers[i].x = st.agent.x /\ st.passengers[i].y = st.agent.y

\* The last call was a pickup that returned, made with has_passenger = 0 and a
\* passenger on the agent's cell.
PickupJustReturned ==
    /\ call # "init" /\ ~raised
    /\ action = "pickup"
    /\ state0.agent.has_passenger = 0
    /\ PassengerHere(state0)

\* The code never tests the fuel value: calls go on below zero, without end. The
\* model follows them down to -FuelDebt and leaves out the calls that would take a
\* returned state lower; a call that raises changes no fuel and is always taken.
\* FuelDebt is deep enough that the calls left out lead to nothing new but the fuel
\* values: every combination of the other fields that the code reaches is reached.
FuelFloor(st) == track_fuel(st) => st.agent.fuel >= -FuelDebt

\* The caller passes the object the last call returned (the initial state at first).
Step(a, r1, r2) ==
    /\ \E r \in {taxi_transition_func(mdp, next_state, a, r1, r2)} :
           /\ r.raised \/ FuelFloor(r.out)
           /\ state0' = next_state
           /\ state' = r.inp
           /\ next_state' = r.out
           /\ alias' = r.alias
           /\ stuck' = r.stuck
           /\ raised' = r.raised
    /\ action' = a
    /\ call' = "step"
    /\ after_pickup' = PickupJustReturned
    /\ UNCHANGED mdp

\* The caller passes again the object it passed to the last call, which returned
\* another object.
Again(a, r1, r2) ==
    /\ ~alias
    /\ \E r \in {taxi_transition_func(mdp, state, a, r1, r2)} :
           /\ r.raised \/ (FuelFloor(r.inp) /\ FuelFloor(r.out))
           /\ state0' = state
           /\ state' = r.inp
           /\ next_state' = IF r.raised THEN next_state ELSE r.out
           /\ alias' = IF r.raised THEN FALSE ELSE r.alias
           /\ stuck' = r.stuck
           /\ raised' = r.raised
    /\ action' = a
    /\ call' = "again"
    /\ UNCHANGED <<mdp, after_pickup>>

\* random.random() is called once for the slip and, only when the agent is at a
\* traffic cell, once more for the traffic.
TrafficDraws(m, st) ==
    IF at_traffic(m, st.agent.x, st.agent.y).at THEN Draws ELSE {0}

Next ==
    \E a \in SuppliedActions, r1 \in Draws :
        \/ \E r2 \in TrafficDraws(mdp, next_state) : Step(a, r1, r2)
        \/ \E r2 \in TrafficDraws(mdp, state) : Again(a, r1, r2)

Spec == Init /\ [][Next]_vars

\* ====================================================== properties
\* A call has been made and it returned (it did not raise).
Returned == call # "init" /\ ~raised

\* ---- C1
\* C1: terminal states are absorbing: a call on a state with is_terminal = TRUE and
\* a valid action returns a state equal to the input state, and leaves the input
\* as it was.
C1_TerminalAbsorbing ==
    (Returned /\ state0.is_terminal) => (next_state = state0 /\ state = state0)

\* A terminal state was passed with "down" while the agent could have moved down.
C1_Witness ==
    /\ Returned
    /\ state0.is_terminal
    /\ action = "down"
    /\ state0.agent.y > 1
    /\ ~is_wall_in_the_way(mdp, state0, 0, -1)

\* ---- C2
\* C2: goal detection: the state a call returns is marked terminal and goal exactly
\* when every passenger in it is at its destination and out of the taxi, whatever
\* the action and also when the input state was already such a state.
C2_GoalDetection ==
    Returned =>
        ((next_state.is_terminal /\ next_state.is_goal) <=> is_taxi_goal_state(next_state))

\* ---- C3
\* Number of passengers in the taxi.
InTaxiCount(st) == Cardinality({i \in DOMAIN st.passengers : st.passengers[i].in_taxi = 1})

\* C3: passenger invariant: in every reachable state the number of passengers with
\* in_taxi = 1 equals agent.has_passenger and is at most 1.
C3_PassengerInvariant ==
    /\ InTaxiCount(next_state) = next_state.agent.has_passenger
    /\ InTaxiCount(next_state) <= 1

\* ---- C4
\* C4: a call never mutates the state object passed in: when the call ends, that
\* object has the content it had when the call began.
C4_InputNotMutated == (call # "init") => (state = state0)

\* ---- C5
\* C5: a call that returns always returns an object distinct from the object
\* passed in.
C5_FreshObject == Returned => ~alias

\* ---- C6
\* C6: determinism: with slip_prob = 0 and no traffic cells, passing the same state
\* object with the same action again yields a next state equal to the one the
\* previous call returned.
C6_RepeatedCallSameResult ==
    [][(/\ mdp.slip_prob = 0
        /\ mdp.traffic_cells = << >>
        /\ Returned
        /\ call' = "again"
        /\ ~raised'
        /\ action' = action)
       => next_state' = next_state]_vars

\* ---- C7
InBounds(m, st) ==
    /\ 1 <= st.agent.x /\ st.agent.x <= m.width
    /\ 1 <= st.agent.y /\ st.agent.y <= m.height

\* C7: bounds invariant: after any sequence of actions and any slip/traffic
\* outcomes the agent is inside the grid.
C7_AgentInBounds == InBounds(mdp, next_state) /\ InBounds(mdp, state)

\* The agent stood in the top right corner, was not stuck, and was told to go up.
C7_Witness ==
    /\ Returned
    /\ ~stuck
    /\ ~state_is_goal(state0)
    /\ action = "up"
    /\ state0.agent.x = mdp.width
    /\ state0.agent.y = mdp.height

\* ---- C8
\* C8: hotswap removal monotonicity: across a call the hotswap_stations list either
\* stays as it is or loses exactly one entry, the others keeping their order;
\* nothing is ever added, so a removed station never comes back.
C8_HotswapMonotone ==
    Returned =>
        \/ next_state.hotswap_station = state0.hotswap_station
        \/ \E k \in DOMAIN state0.hotswap_station :
              next_state.hotswap_station = DelAt(state0.hotswap_station, k)

\* A call removed a station from a list that had already lost one.
C8_Witness ==
    /\ Returned
    /\ Len(state0.hotswap_station) = 2
    /\ Len(next_state.hotswap_station) = 1

\* ---- C9
\* The active action set of a state.
ActiveActions(st) == IF track_fuel(st) THEN AUGMENTED_ACTIONS ELSE BASE_ACTIONS

\* C9: a call with an action outside the active action set raises, for terminal
\* and non-terminal states alike, and leaves the state passed in (fuel included)
\* and the last returned state as they were.
C9_InvalidActionRaises ==
    (call # "init" /\ action \notin ActiveActions(state0)) =>
        (raised /\ state = state0 /\ (call = "step" => next_state = state0))

\* "refuel" was supplied for a terminal state that does not track fuel.
C9_Witness ==
    /\ raised
    /\ action = "refuel"
    /\ ~track_fuel(state0)
    /\ state0.is_terminal

\* ---- C10
\* The navigation action a would leave the grid or run into a wall.
IllegalMove(m, st, a) ==
    \/ a = "up" /\ (st.agent.y >= m.height \/ is_wall_in_the_way(m, st, 0, 1))
    \/ a = "down" /\ (st.agent.y <= 1 \/ is_wall_in_the_way(m, st, 0, -1))
    \/ a = "right" /\ (st.agent.x >= m.width \/ is_wall_in_the_way(m, st, 1, 0))
    \/ a = "left" /\ (st.agent.x <= 1 \/ is_wall_in_the_way(m, st, -1, 0))

\* The position part of a state: where the agent and the passengers are, and who
\* is in the taxi.
Position(st) ==
    [x |-> st.agent.x, y |-> st.agent.y, has_passenger |-> st.agent.has_passenger,
     passengers |-> [i \in DOMAIN st.passengers |->
                        [x |-> st.passengers[i].x, y |-> st.passengers[i].y,
                         in_taxi |-> st.passengers[i].in_taxi]]]

\* C10: an illegal move (out of the grid, or into a wall) is a position no-op: the
\* agent's and every passenger's position, in_taxi and has_passenger are those of
\* the input state.
C10_IllegalMoveNoOp ==
    (Returned /\ IllegalMove(mdp, state0, action)) =>
        Position(next_state) = Position(state0)

\* The agent, carrying a passenger and not stuck, was told to go right into a wall.
C10_Witness ==
    /\ Returned
    /\ ~stuck
    /\ action = "right"
    /\ state0.agent.x < mdp.width
    /\ is_wall_in_the_way(mdp, state0, 1, 0)
    /\ state0.agent.has_passenger = 1

\* ---- C11
\* Where the passengers are.
PassengerCells(st) ==
    [i \in DOMAIN st.passengers |-> [x |-> st.passengers[i].x, y |-> st.passengers[i].y]]

\* C11: pickup/dropoff pairing: a pickup moves no passenger, and a dropoff made on
\* the state a pickup (from has_passenger = 0, a passenger on the agent's cell) has
\* just returned yields a state in which every passenger has in_taxi = 0 and the
\* (x, y) it had, and the agent has has_passenger = 0.
C11_PickupThenDropoff ==
    /\ (Returned /\ action = "pickup") =>
            PassengerCells(next_state) = PassengerCells(state0)
    /\ (Returned /\ after_pickup /\ action = "dropoff") =>
            /\ \A i \in DOMAIN next_state.passengers : next_state.passengers[i].in_taxi = 0
            /\ PassengerCells(next_state) = PassengerCells(state0)
            /\ next_state.agent.has_passenger = 0

\* A dropoff right after a pickup that had taken a passenger into the taxi.
C11_Witness ==
    /\ Returned
    /\ after_pickup
    /\ action = "dropoff"
    /\ state0.agent.has_passenger = 1
    /\ \E i \in DOMAIN state0.passengers : state0.passengers[i].in_taxi = 1

\* ---- C12
\* The configuration of the delivery example: no slip, walls, tolls, traffic or
\* fuel, and a single passenger.
DeliveryConfig ==
    /\ mdp.slip_prob = 0
    /\ mdp.walls = << >> /\ mdp.tolls = << >> /\ mdp.traffic_cells = << >>
    /\ ~track_fuel(state0)
    /\ Len(state0.passengers) = 1

\* The agent stands on the destination of passenger i.
AtDestination(st, i) ==
    st.agent.x = st.passengers[i].dest_x /\ st.agent.y = st.passengers[i].dest_y

\* The (dx, dy) of a navigation action.
Delta(a) ==
    IF a = "up" THEN <<0, 1>> ELSE IF a = "down" THEN <<0, -1>>
    ELSE IF a = "right" THEN <<1, 0>> ELSE IF a = "left" THEN <<-1, 0>> ELSE <<0, 0>>

NavigationActions == {"up", "down", "left", "right"}

\* The agent carries passenger 1, who is on the agent's cell.
Carrying(st) ==
    /\ st.agent.has_passenger = 1
    /\ st.passengers[1].in_taxi = 1
    /\ st.passengers[1].x = st.agent.x /\ st.passengers[1].y = st.agent.y

\* C12: delivery ends the episode: in the example's configuration, pickup of the
\* co-located passenger (not at its destination) returns a state with
\* has_passenger = 1 and in_taxi = 1; each move inside the grid then takes agent and
\* passenger one cell in its direction; no state with the passenger in the taxi is
\* terminal; and dropoff at the destination returns a state that is terminal and goal.
C12_DeliveryEndsEpisode ==
    (Returned /\ DeliveryConfig) =>
        /\ (/\ action = "pickup"
            /\ state0.agent.has_passenger = 0
            /\ PassengerHere(state0)
            /\ ~AtDestination(state0, 1))
           => Carrying(next_state)
        /\ (/\ action \in NavigationActions
            /\ Carrying(state0)
            /\ ~IllegalMove(mdp, state0, action))
           => /\ Carrying(next_state)
              /\ next_state.agent.x = state0.agent.x + Delta(action)[1]
              /\ next_state.agent.y = state0.agent.y + Delta(action)[2]
        /\ next_state.passengers[1].in_taxi = 1 => ~next_state.is_terminal
        /\ (/\ action = "dropoff"
            /\ Carrying(state0)
            /\ AtDestination(state0, 1))
           => /\ next_state.is_terminal /\ next_state.is_goal
              /\ next_state.passengers[1].in_taxi = 0
              /\ next_state.agent.has_passenger = 0

\* The passenger, picked up at (1, 1), was dropped off at its destination, the far
\* corner, and the returned state is terminal and goal.
C12_Witness ==
    /\ Returned /\ DeliveryConfig
    /\ action = "dropoff"
    /\ Carrying(state0)
    /\ AtDestination(state0, 1)
    /\ state0.agent.x = mdp.width /\ state0.agent.y = mdp.height
    /\ next_state.is_terminal /\ next_state.is_goal

\* ---- C13
\* The reward features of the last call: compute_reward_features on the state that
\* was passed in (as the caller holds it after the call), the action and the state
\* returned.
RewardFeatures == compute_reward_features(mdp, state, action, next_state)

\* The agent is on another cell in the returned state than in the input state.
AgentMoved == state0.agent.x # next_state.agent.x \/ state0.agent.y # next_state.agent.y

\* C13: reward feature bound: step_cost_flag is 1; toll_flag is 0 when the
\* configuration has no tolls; hotswap_flag is 0 when it has no hotswap stations;
\* each flag is 0 or 1.
C13_RewardFeatureBound ==
    Returned =>
        /\ RewardFeatures.step_cost_flag = 1
        /\ ~mdp.reward_features.toll => RewardFeatures.toll_flag = 0
        /\ ~mdp.reward_features.hotswap => RewardFeatures.hotswap_flag = 0
        /\ RewardFeatures.toll_flag \in {0, 1}
        /\ RewardFeatures.hotswap_flag \in {0, 1}

\* A step that moved the agent in a configuration with neither tolls nor hotswap
\* stations.
C13_Witness ==
    /\ Returned
    /\ AgentMoved
    /\ ~mdp.reward_features.toll
    /\ ~mdp.reward_features.hotswap
    /\ RewardFeatures = [toll_flag |-> 0, hotswap_flag |-> 0, step_cost_flag |-> 1]

\* ---- C14
\* What a first-match-wins pickup makes of state st: the first passenger in list
\* order on the agent's cell and out of the taxi is taken in, nobody else changes.
FirstMatchPickup(st) ==
    LET i == FirstIndex({k \in DOMAIN st.passengers :
                            /\ st.passengers[k].x = st.agent.x
                            /\ st.passengers[k].y = st.agent.y
                            /\ st.passengers[k].in_taxi = 0})
    IN  IF st.agent.has_passenger = 0 /\ i # 0
        THEN [st EXCEPT !.agent.has_passenger = 1, !.passengers[i].in_taxi = 1]
        ELSE st

\* C14: pickup is first-match-wins: a pickup (dispatched on a state that is not a
\* goal state, after the fuel step) returns the state in which exactly the first
\* eligible passenger on the agent's cell has been taken in, and the state as it was
\* if there is none or has_passenger is already 1.
C14_PickupFirstMatch ==
    (Returned /\ action = "pickup" /\ ~state_is_goal(state0)) =>
        next_state = FirstMatchPickup(fuel_step(state0))

\* The same for states with a single passenger on the agent's cell or none.
C14_SinglePassengerHere ==
    (/\ Returned /\ action = "pickup" /\ ~state_is_goal(state0)
     /\ Cardinality({k \in DOMAIN state0.passengers :
                        /\ state0.passengers[k].x = state0.agent.x
                        /\ state0.passengers[k].y = state0.agent.y}) <= 1) =>
        next_state = FirstMatchPickup(fuel_step(state0))

\* ---- C15
\* The first passenger in list order that is in the taxi, 0 if none.
FirstInTaxi(st) == FirstIndex({k \in DOMAIN st.passengers : st.passengers[k].in_taxi = 1})

\* Passenger i of st is at its destination.
Delivered(st, i) ==
    st.passengers[i].x = st.passengers[i].dest_x /\ st.passengers[i].y = st.passengers[i].dest_y

\* C15: dropoff works anywhere: a dropoff (dispatched on a state that is not a goal
\* state, after the fuel step) with has_passenger = 1 returns a state in which the
\* first passenger that was in the taxi has in_taxi = 0 and stands on the agent's
\* cell, and has_passenger = 0, whether or not the cell is its destination; if it is
\* not, the returned state is not terminal and a pickup on it takes that passenger
\* in again.  With has_passenger = 0 the returned state is the state as it was.
C15_DropoffAnywhere ==
    (Returned /\ action = "dropoff" /\ ~state_is_goal(state0)) =>
        LET inp == fuel_step(state0)
            i   == FirstInTaxi(inp)
        IN  IF inp.agent.has_passenger = 1
            THEN /\ i # 0
                 /\ next_state.passengers[i].in_taxi = 0
                 /\ next_state.agent.has_passenger = 0
                 /\ next_state.agent.x = state0.agent.x
                 /\ next_state.agent.y = state0.agent.y
                 /\ next_state.passengers[i].x = next_state.agent.x
                 /\ next_state.passengers[i].y = next_state.agent.y
                 /\ ~Delivered(next_state, i) =>
                        /\ ~next_state.is_terminal
                        /\ taxi_transition_func(mdp, next_state, "pickup", 99, 99)
                               .out.passengers[i].in_taxi = 1
            ELSE next_state = inp

\* A passenger was dropped off on a cell that is not its destination.
C15_Witness ==
    /\ Returned /\ action = "dropoff" /\ ~state_is_goal(state0)
    /\ state0.agent.has_passenger = 1
    /\ FirstInTaxi(state0) # 0
    /\ ~Delivered(next_state, FirstInTaxi(state0))
    /\ next_state.passengers[FirstInTaxi(state0)].in_taxi = 0
    /\ ~next_state.is_terminal

\* ---- C16
\* The fuel the rule gives the state returned for input st and action a: the
\* station's capacity for a refuel on a fuel station, one less than before otherwise.
FuelRule(m, st, a) ==
    LET f == at_fuel_station(m, st.agent.x, st.agent.y)
    IN  IF a = "refuel" /\ f.at THEN f.max_fuel_capacity ELSE st.agent.fuel - 1

\* C16: fuel rule: with fuel tracking, every call on a non-terminal state returns a
\* state whose fuel is the input's fuel minus one (blocked moves, pickup and dropoff
\* included), except a refuel on a fuel station, which returns the station's capacity.
C16_FuelRule ==
    (Returned /\ track_fuel(state0) /\ ~state0.is_terminal) =>
        next_state.agent.fuel = FuelRule(mdp, state0, action)

\* The same for the calls whose input is not a goal state.
C16_FuelRuleFromNonGoal ==
    (Returned /\ track_fuel(state0) /\ ~state_is_goal(state0)) =>
        next_state.agent.fuel = FuelRule(mdp, state0, action)

\* ---- C17
\* The last call returned and went through the branch that draws the stuck outcome.
Drawn == Returned /\ ~state_is_goal(state0)

\* What the last call would have returned with draws too high to get stuck.
NotStuckResult == taxi_transition_func(mdp, state0, action, 99, 99)

\* C17: stuck blocks navigation only: the stuck outcome is true only if slip_prob > 0
\* or the agent's cell is a traffic cell with probability > 0; when it is true a
\* navigation action leaves all positions as they were, while pickup, dropoff and
\* refuel return what they return when it is false; when it is false a navigation
\* action inside the grid and clear of walls moves the agent one cell in its direction.
C17_StuckBlocksNavigationOnly ==
    Drawn =>
        /\ stuck =>
             \/ mdp.slip_prob > 0
             \/ LET t == at_traffic(mdp, state0.agent.x, state0.agent.y)
                IN  t.at /\ t.prob > 0
        /\ (stuck /\ action \in NavigationActions) =>
             Position(next_state) = Position(state0)
        /\ action \in {"pickup", "dropoff", "refuel"} =>
             /\ ~NotStuckResult.stuck
             /\ next_state = NotStuckResult.out
        /\ (~stuck /\ action \in NavigationActions /\ ~IllegalMove(mdp, state0, action)) =>
             /\ next_state.agent.x = state0.agent.x + Delta(action)[1]
             /\ next_state.agent.y = state0.agent.y + Delta(action)[2]

\* Stuck through traffic alone (slip_prob = 0), and the pickup took a passenger in.
C17_Witness ==
    /\ Drawn
    /\ stuck
    /\ mdp.slip_prob = 0
    /\ action = "pickup"
    /\ state0.agent.has_passenger = 0
    /\ next_state.agent.has_passenger = 1

\* Stuck through the slip alone, on a cell without traffic.
C17_StuckBySlipAlone ==
    /\ Drawn
    /\ stuck
    /\ ~at_traffic(mdp, state0.agent.x, state0.agent.y).at

\* ---- C18
\* The indices of the stations of `st` that lie on the agent's cell.
StationsHere(st) ==
    {k \in DOMAIN st.hotswap_station :
        /\ st.hotswap_station[k].x = st.agent.x
        /\ st.hotswap_station[k].y = st.agent.y}

\* C18: hotswap removal is exact: a station is deleted exactly when the agent stood
\* on a station's cell in the input and stands on another cell in the returned state;
\* the deleted entry is the first such station in list order, the others keep their
\* order; a transition that does not move the agent deletes nothing.
C18_HotswapRemovalExact ==
    Returned =>
        IF AgentMoved /\ StationsHere(state0) # {}
        THEN next_state.hotswap_station =
                DelAt(state0.hotswap_station, FirstIndex(StationsHere(state0)))
        ELSE next_state.hotswap_station = state0.hotswap_station

\* The agent left a cell that held two stations, and one entry went.
C18_Witness ==
    /\ Returned
    /\ AgentMoved
    /\ Cardinality(StationsHere(state0)) >= 2
    /\ Len(next_state.hotswap_station) = Len(state0.hotswap_station) - 1

\* ---- C19
\* The returned state has fewer hotswap stations than the input state had.
LostStation == Len(next_state.hotswap_station) < Len(state0.hotswap_station)

\* C19: reward and transition agree on hotswap consumption: for the state the
\* transition function returned, hotswap_flag is 1 exactly when its hotswap list
\* lost a station relative to the input state, and 0 otherwise, the identity
\* transition on a terminal state included.
C19_RewardAgreesOnHotswap ==
    Returned =>
        /\ RewardFeatures.hotswap_flag \in {0, 1}
        /\ RewardFeatures.hotswap_flag = 1 <=> LostStation

\* A station was consumed and the flag is 1.
C19_Witness ==
    /\ Returned
    /\ LostStation
    /\ RewardFeatures.hotswap_flag = 1

\* The identity transition on a terminal state that still has stations gives 0.
C19_TerminalIdentity ==
    /\ Returned
    /\ state0.is_terminal
    /\ Len(state0.hotswap_station) > 0
    /\ RewardFeatures.hotswap_flag = 0

\* ---- C20
\* The agent's cell in `st` is one of the toll cells.
OnToll(m, st) ==
    \E k \in DOMAIN m.tolls : m.tolls[k].x = st.agent.x /\ m.tolls[k].y = st.agent.y

\* C20: tolls are charged on exit, not entry: toll_flag is 1 exactly when the
\* configuration has at least one toll, the agent's cell in the input state is a
\* toll cell and its cell in the returned state is another one; entering a toll
\* cell from a free cell, and staying on a toll cell, give 0.
C20_TollOnExit ==
    Returned =>
        /\ RewardFeatures.toll_flag \in {0, 1}
        /\ RewardFeatures.toll_flag = 1 <=>
             (Len(mdp.tolls) > 0 /\ OnToll(mdp, state0) /\ AgentMoved)
        /\ (~OnToll(mdp, state0) /\ OnToll(mdp, next_state)) =>
             RewardFeatures.toll_flag = 0
        /\ (OnToll(mdp, state0) /\ ~AgentMoved) => RewardFeatures.toll_flag = 0

\* The agent left a toll cell and the flag is 1.
C20_Witness ==
    /\ Returned
    /\ OnToll(mdp, state0)
    /\ AgentMoved
    /\ RewardFeatures.toll_flag = 1

\* The agent entered a toll cell from a free cell and the flag is 0.
C20_EntryNotCharged ==
    /\ Returned
    /\ ~OnToll(mdp, state0)
    /\ OnToll(mdp, next_state)
    /\ RewardFeatures.toll_flag = 0

\* The agent stayed on a toll cell and the flag is 0.
C20_StayNotCharged ==
    /\ Returned
    /\ OnToll(mdp, state0)
    /\ ~AgentMoved
    /\ RewardFeatures.toll_flag = 0

\* ---- C21
\* Every passenger of `st` that is in the taxi is on the agent's cell.
CarriedWithAgent(st) ==
    \A i \in DOMAIN st.passengers :
        st.passengers[i].in_taxi = 1 =>
            /\ st.passengers[i].x = st.agent.x
            /\ st.passengers[i].y = st.agent.y

\* C21: a carried passenger travels with the taxi: in every state reached from an
\* initial state whose in_taxi passengers share the agent's cell, every passenger
\* with in_taxi = 1 is on the agent's cell; a move that succeeds translates such a
\* passenger by the same (dx, dy) as the agent, and the passengers with in_taxi = 0
\* keep their coordinates.
C21_CarriedPassengerTravels ==
    /\ CarriedWithAgent(state)
    /\ CarriedWithAgent(next_state)
    /\ (Returned /\ AgentMoved) =>
         /\ action \in NavigationActions
         /\ next_state.agent.x = state0.agent.x + Delta(action)[1]
         /\ next_state.agent.y = state0.agent.y + Delta(action)[2]
         /\ DOMAIN next_state.passengers = DOMAIN state0.passengers
         /\ \A i \in DOMAIN state0.passengers :
              LET p == state0.passengers[i]
                  q == next_state.passengers[i]
              IN  IF p.in_taxi = 1
                  THEN q.x = p.x + Delta(action)[1] /\ q.y = p.y + Delta(action)[2]
                  ELSE q.x = p.x /\ q.y = p.y

\* A move succeeded with a passenger in the taxi, who arrived with the agent.
C21_Witness ==
    /\ Returned
    /\ AgentMoved
    /\ \E i \in DOMAIN state0.passengers :
         /\ state0.passengers[i].in_taxi = 1
         /\ next_state.passengers[i].x = next_state.agent.x
         /\ next_state.passengers[i].y = next_state.agent.y

\* A move succeeded away from a passenger left on the agent's cell, who stayed.
C21_LeftBehind ==
    /\ Returned
    /\ AgentMoved
    /\ \E i \in DOMAIN state0.passengers :
         /\ state0.passengers[i].in_taxi = 0
         /\ state0.passengers[i].x = state0.agent.x
         /\ state0.passengers[i].y = state0.agent.y
         /\ next_state.passengers[i].x = state0.passengers[i].x
         /\ next_state.passengers[i].y = state0.passengers[i].y

====
